---- MODULE Spec2Model ----
(***************************************************************************)
(* Model of the othello-players minimax engine.                            *)
(*                                                                         *)
(*   - src/minimax/minimax.py : Node and the iterative alpha-beta driver   *)
(*     MiniMaxPlayer.minimax (inline backtracking, "<=" at min nodes).     *)
(*   - src/minimax/node.py    : the later Node, whose backtracking update  *)
(*     is the method Node.minimax (strict "<" at min nodes), and get_info. *)
(*   - src/minimax/heuristics.py : the four sub-heuristics.                *)
(*                                                                         *)
(* The othello package (Board, Color, Position) is not part of the         *)
(* repository.  In the search, a Board is an opaque position: it gives the *)
(* ordered legal moves of the side to move, the position after a move, and *)
(* a heuristic value.  It is modelled as a finite game tree                *)
(*     [h |-> value for WHITE, kids |-> <<tree, ...>>]                     *)
(* with moves numbered 1..Len(kids) in the board's enumeration order.      *)
(* math.inf is the integer Inf, larger than every heuristic value.         *)
(***************************************************************************)
EXTENDS Integers, Sequences, FiniteSets, TLC

VARIABLES
    color,        \* colour the search is run for (minimax's color argument)
    depth_limit,  \* minimax's depth_limit argument
    variant,      \* which backtracking update the driver applies
    stack,        \* the parent chain: stack[1] is the root, the last is current
    done,         \* the driver has returned (return current, parent is None)
    closed,       \* history: the node closed by the last loop iteration
    pruned,       \* history: a cutoff has dropped at least one unconsumed child
    hboard,       \* the board a sub-heuristic is called on
    hout,         \* the sub-heuristic called and what the call produced
    par           \* the parallel root search: tasks, finished workers, result

vars == <<color, depth_limit, variant, stack, done, closed, pruned, hboard, hout, par>>

(***************************************************************************)
(* Bounds                                                                  *)
(***************************************************************************)
MaxNodes == 6
MaxVal == 2
MaxLimit == 2

\* (0, 0), the move of the root and the initial next_move of every node.
NoMove == 0

Inf == MaxVal + 1
Vals == 0 .. MaxVal
\* Heuristic value of a position that still has legal moves.
InnerVal == MaxVal - 1
\* depth_limit = math.inf: deeper than any tree of the model.
NoLimit == MaxNodes
DepthLimits == (0 .. MaxLimit) \cup {NoLimit}
Colors == {"WHITE", "BLACK"}
Variants == {"player", "node"}

Opposite(c) == IF c = "WHITE" THEN "BLACK" ELSE "WHITE"
Min(a, b) == IF a < b THEN a ELSE b
Abs(a) == IF a < 0 THEN -a ELSE a

(***************************************************************************)
(* Positions: all game trees with at most MaxNodes nodes.                  *)
(***************************************************************************)
RECURSIVE TreesN(_), ForestsN(_)
TreesN(n) ==
    IF n = 1
    THEN {[h |-> v, kids |-> <<>>] : v \in Vals}
    ELSE {[h |-> InnerVal, kids |-> f] : f \in ForestsN(n - 1)}

ForestsN(m) ==
    IF m = 0
    THEN {<<>>}
    ELSE UNION {{<<t>> \o f : t \in TreesN(k), f \in ForestsN(m - k)} : k \in 1 .. m}

Boards == UNION {TreesN(n) : n \in 1 .. MaxNodes}

\* board.valid_moves(color) for the side to move at the position.
ValidMoves(board) == [i \in 1 .. Len(board.kids) |-> i]

\* board.get_clone().play(move, color)
Play(board, move) == board.kids[move]

\* Node.heuristic(color): a value for the given colour; every ratio of the
\* blend changes sign when the colours are swapped.
HeuristicOwnColor(n, c) == IF n.color = "WHITE" THEN n.board.h ELSE -n.board.h
Heuristic(n, c) == IF c = "WHITE" THEN n.board.h ELSE -n.board.h

(***************************************************************************)
(* The sub-heuristics (src/minimax/heuristics.py) on an 8 x 8 board.       *)
(* board[pos] is EMPTY, BLACK or WHITE on the board and OUTER around it.   *)
(* The boards of the model hold pieces on the cells of Region only.        *)
(* Python's float results are kept as exact fractions [num, den], den > 0; *)
(* a raised exception is the result's fault.                               *)
(***************************************************************************)
BoardSize == 8
POSITIONS == (1 .. BoardSize) \X (1 .. BoardSize)
CORNERS == {<<1, 1>>, <<1, BoardSize>>, <<BoardSize, 1>>, <<BoardSize, BoardSize>>}
DIRECTIONS == ({-1, 0, 1} \X {-1, 0, 1}) \ {<<0, 0>>}
Region == {<<1, c>> : c \in 1 .. BoardSize}
HBoards == [Region -> {"EMPTY", "BLACK", "WHITE"}]
NoBoard == [p \in Region |-> "EMPTY"]

\* board[pos]
Cell(board, pos) ==
    IF pos \in Region THEN board[pos]
    ELSE IF pos \in POSITIONS THEN "EMPTY" ELSE "OUTER"

\* pos + k * direction
Step(pos, d, k) == <<pos[1] + k * d[1], pos[2] + k * d[2]>>

\* board.score(): the piece counts (WHITE, BLACK).
Score(board) ==
    <<Cardinality({p \in POSITIONS : Cell(board, p) = "WHITE"}),
      Cardinality({p \in POSITIONS : Cell(board, p) = "BLACK"})>>

\* board.valid_moves(color) by the rules of Othello: an empty cell from
\* which some direction holds a run of the opponent's pieces closed by a
\* piece of color.
ValidMovesOn(board, c) ==
    {p \in POSITIONS :
        /\ Cell(board, p) = "EMPTY"
        /\ \E d \in DIRECTIONS :
              /\ Cell(board, Step(p, d, 1)) = Opposite(c)
              /\ \E k \in 2 .. (BoardSize - 1) :
                    /\ Cell(board, Step(p, d, k)) = c
                    /\ \A j \in 1 .. (k - 1) : Cell(board, Step(p, d, j)) = Opposite(c)}

Rat(n, d) == [num |-> n, den |-> d]
RatEq(x, y) == x.num * y.den = y.num * x.den
RatLe(x, y) == x.num * y.den <= y.num * x.den
RatNeg(x) == Rat(-x.num, x.den)
RatAdd(x, y) == Rat(x.num * y.den + y.num * x.den, x.den * y.den)
RatScale(k, x) == Rat(k * x.num, x.den)
RatDiv(x, k) == Rat(x.num, x.den * k)
Ok(x) == [fault |-> "none", val |-> x]
Raise(e) == [fault |-> e, val |-> Rat(0, 1)]

FRONT_MOBILITY_WEIGHT == 50
ACTUAL_MOBILITY_WEIGHT == 50
OCCUPIED_CORNERS_WEIGHT == 50
UNLIKELY_CORNERS_WEIGHT == 40
POTENTIAL_CORNERS_WEIGHT == 30
IRREVERSIBLE_CORNERS_WEIGHT == 15

\* "(a - b) / (a + b) * 100 if a + b else 0"
Ratio(a, b) == IF a + b # 0 THEN Rat((a - b) * 100, a + b) ELSE Rat(0, 1)

\* One ratio of a call: its two counts and its value.
Part(a, b, r) == [a |-> a, b |-> b, r |-> r]

\* score_heuristic: the ratio is computed without a test of its denominator.
ScoreParts(board, c) ==
    LET sc == Score(board)
        score == IF c = "WHITE" THEN sc[1] ELSE sc[2]
        opp_score == IF c = "WHITE" THEN sc[2] ELSE sc[1]
    IN <<Part(score, opp_score,
              IF score + opp_score = 0
              THEN Raise("ZeroDivisionError")
              ELSE Ok(Rat((score - opp_score) * 100, score + opp_score)))>>

\* The value returned (or the exception raised) and the ratios computed.
score_heuristic(board, c) ==
    LET ps == ScoreParts(board, c) IN [res |-> ps[1].r, parts |-> ps]

\* corners_heuristic, the scan of one direction from one empty corner:
\* the colour of the neighbour and the counter it is added to.
CornerScan(board, corner, d) ==
    LET neighbour == Cell(board, Step(corner, d, 1))
        differs == {i \in 2 .. 7 : Cell(board, Step(corner, d, i)) # neighbour}
    IN IF Cell(board, corner) # "EMPTY" \/ neighbour \in {"EMPTY", "OUTER"}
       THEN [color |-> "EMPTY", counter |-> "none"]
       ELSE IF differs = {}
       THEN [color |-> neighbour, counter |-> "irreversible"]
       ELSE LET first == CHOOSE i \in differs : \A j \in differs : i <= j
                distant_neighbour == Cell(board, Step(corner, d, first))
            IN [color |-> neighbour,
                counter |-> IF distant_neighbour = "EMPTY" THEN "unlikely"
                            ELSE IF distant_neighbour = "OUTER" THEN "RuntimeError"
                            ELSE "potential"]

CornerCount(board, counter, c) ==
    LET empty == {p \in CORNERS : Cell(board, p) = "EMPTY"} IN
    Cardinality({cd \in empty \X DIRECTIONS :
                    CornerScan(board, cd[1], cd[2]) = [color |-> c, counter |-> counter]})

Occupied(board, c) == Cardinality({p \in CORNERS : Cell(board, p) = c})

CornersParts(board, c) ==
    LET o == Opposite(c)
        occ == Occupied(board, c)
        opp_occ == Occupied(board, o)
        unl == CornerCount(board, "unlikely", c)
        opp_unl == CornerCount(board, "unlikely", o)
        pot == CornerCount(board, "potential", c)
        opp_pot == CornerCount(board, "potential", o)
        irr == CornerCount(board, "irreversible", c)
        opp_irr == CornerCount(board, "irreversible", o)
    IN <<Part(occ, opp_occ, Ok(Ratio(occ, opp_occ))),
         Part(unl, opp_unl, Ok(Ratio(unl, opp_unl))),
         Part(pot, opp_pot, Ok(Ratio(pot, opp_pot))),
         Part(irr, opp_irr, Ok(Ratio(irr, opp_irr)))>>

corners_heuristic(board, c) ==
    LET ps == CornersParts(board, c) IN
    [parts |-> ps,
     res |->
        IF \E cd \in CORNERS \X DIRECTIONS :
              CornerScan(board, cd[1], cd[2]).counter = "RuntimeError"
        THEN Raise("RuntimeError")
        ELSE Ok(RatDiv(
                  RatAdd(RatAdd(RatScale(OCCUPIED_CORNERS_WEIGHT, ps[1].r.val),
                                RatScale(UNLIKELY_CORNERS_WEIGHT, ps[2].r.val)),
                         RatAdd(RatScale(POTENTIAL_CORNERS_WEIGHT, ps[3].r.val),
                                RatScale(IRREVERSIBLE_CORNERS_WEIGHT, ps[4].r.val))),
                  4 * (OCCUPIED_CORNERS_WEIGHT + UNLIKELY_CORNERS_WEIGHT
                       + POTENTIAL_CORNERS_WEIGHT + IRREVERSIBLE_CORNERS_WEIGHT)))]

\* mobility_h: "(moves - opp_moves) / (moves + opp_moves) * 100 if moves +
\* opp_moves else 0"
MobilityRatioBothNonzero(moves, opp_moves) ==
    IF moves # 0 /\ opp_moves # 0
    THEN Rat((moves - opp_moves) * 100, moves + opp_moves)
    ELSE Rat(0, 1)
MobilityRatio(moves, opp_moves) ==
    IF moves + opp_moves # 0
    THEN Rat((moves - opp_moves) * 100, moves + opp_moves)
    ELSE Rat(0, 1)

\* front_moves[color]: the (direction, piece) pairs whose next cell is empty.
FrontMoves(board, c) ==
    LET pieces_position == {p \in POSITIONS : Cell(board, p) = c} IN
    Cardinality({dp \in DIRECTIONS \X pieces_position :
                    Cell(board, Step(dp[2], dp[1], 1)) = "EMPTY"})

MobilityParts(board, c) ==
    LET o == Opposite(c)
        moves == Cardinality(ValidMovesOn(board, c))
        opp_moves == Cardinality(ValidMovesOn(board, o))
        front == FrontMoves(board, c)
        opp_front == FrontMoves(board, o)
    IN <<Part(moves, opp_moves, Ok(MobilityRatio(moves, opp_moves))),
         Part(front, opp_front, Ok(Ratio(front, opp_front)))>>

mobility_heuristic(board, c) ==
    LET ps == MobilityParts(board, c) IN
    [parts |-> ps,
     res |-> Ok(RatDiv(RatAdd(RatScale(ACTUAL_MOBILITY_WEIGHT, ps[1].r.val),
                              RatScale(FRONT_MOBILITY_WEIGHT, ps[2].r.val)),
                       2 * (ACTUAL_MOBILITY_WEIGHT + FRONT_MOBILITY_WEIGHT)))]

\* stability_heuristic: the first cell that differs from the piece along a
\* ray, or "edge" when the ray leaves the board first.
RayEnd(board, pos, d, sign) ==
    LET occupied == Cell(board, pos)
        stops == {k \in 1 .. BoardSize :
                     \/ Step(pos, d, sign * k) \notin POSITIONS
                     \/ Cell(board, Step(pos, d, sign * k)) # occupied}
        k0 == CHOOSE k \in stops : \A j \in stops : k <= j
    IN IF Step(pos, d, sign * k0) \in POSITIONS
       THEN Cell(board, Step(pos, d, sign * k0))
       ELSE "edge"

StabilityDirections == <<(<<1, 0>>), (<<-1, 1>>), (<<0, 1>>), (<<1, 1>>)>>

\* pos_stability after the directions from the i-th on, given its value so far.
RECURSIVE PosStability(_, _, _, _)
PosStability(board, pos, i, sofar) ==
    IF i > Len(StabilityDirections)
    THEN sofar
    ELSE LET d == StabilityDirections[i]
             forward_neighbour == RayEnd(board, pos, d, 1)
             backward_neighbour == RayEnd(board, pos, d, -1)
         IN IF forward_neighbour = "edge" \/ backward_neighbour = "edge"
            THEN PosStability(board, pos, i + 1, sofar)
            ELSE IF forward_neighbour = backward_neighbour
                 THEN PosStability(board, pos, i + 1, 1)
                 ELSE 0

RECURSIVE SumOver(_, _, _)
SumOver(S, board, dummy) ==
    IF S = {} THEN 0
    ELSE LET p == CHOOSE q \in S : TRUE IN
         PosStability(board, p, 1, 2) + SumOver(S \ {p}, board, dummy)

\* stability[color]
Stability(board, c) == SumOver({p \in POSITIONS : Cell(board, p) = c}, board, 0)

StabilityParts(board, c) ==
    LET mine == Stability(board, c)
        theirs == Stability(board, Opposite(c))
    IN <<Part(mine, theirs, Ok(Ratio(mine, theirs)))>>

stability_heuristic(board, c) ==
    LET ps == StabilityParts(board, c) IN [res |-> ps[1].r, parts |-> ps]

(***************************************************************************)
(* Node.heuristic of node.py: the blend of the four sub-heuristics.  The   *)
(* board's MAX_TURNS and turns belong to the external Board.               *)
(***************************************************************************)
SCORE_WEIGHT == 25
CORNERS_WEIGHT == 30
MOBILITY_WEIGHT == 5
STABILITY_WEIGHT == 15
MAX_TURNS == 60

\* The values of board.turns on both sides of each phase boundary.
Turns == {MAX_TURNS - r : r \in {0, 20, 21, 40, 41, MAX_TURNS}}

RECURSIVE GCD(_, _)
GCD(a, b) == IF b = 0 THEN a ELSE GCD(b, a % b)

\* The same rational in lowest terms.
RatNorm(x) ==
    LET g == GCD(Abs(x.num), x.den) IN Rat(x.num \div g, x.den \div g)

\* x + y in lowest terms.
RatSum(x, y) ==
    LET g == GCD(x.den, y.den) IN
    RatNorm(Rat(x.num * (y.den \div g) + y.num * (x.den \div g),
                (x.den \div g) * y.den))

\* score_weight, corners_weight, MOBILITY_WEIGHT and stability_weight after
\* the "dynamic weights" statements.
AdaptedWeights(remaining_moves) ==
    LET first == IF remaining_moves <= 20 THEN <<10, 20, 10>> ELSE <<0, 0, 0>>
        second == IF 20 < remaining_moves /\ remaining_moves <= 40
                  THEN <<0, 10, 10>> ELSE <<0, 0, 0>>
    IN <<SCORE_WEIGHT + first[1] + second[1],
         CORNERS_WEIGHT + first[2] + second[2],
         MOBILITY_WEIGHT,
         STABILITY_WEIGHT + first[3] + second[3]>>

BaseWeights == <<SCORE_WEIGHT, CORNERS_WEIGHT, MOBILITY_WEIGHT, STABILITY_WEIGHT>>

\* (w1 * h1 + w2 * h2 + w3 * h3 + w4 * h4) / (w1 + w2 + w3 + w4)
Blend(w, h) ==
    RatNorm(RatDiv(
        RatSum(RatSum(RatNorm(RatScale(w[1], RatNorm(h[1]))),
                      RatNorm(RatScale(w[2], RatNorm(h[2])))),
               RatSum(RatNorm(RatScale(w[3], RatNorm(h[3]))),
                      RatNorm(RatScale(w[4], RatNorm(h[4]))))),
        w[1] + w[2] + w[3] + w[4]))

\* The four sub-heuristics in the order the return expression calls them.
SubHeuristics(board, c) ==
    <<score_heuristic(board, c).res, corners_heuristic(board, c).res,
      mobility_heuristic(board, c).res, stability_heuristic(board, c).res>>

\* The first exception a sub-heuristic raises, if any.
FirstFault(subs) ==
    LET faulty == {i \in DOMAIN subs : subs[i].fault # "none"} IN
    IF faulty = {} THEN "none"
    ELSE subs[CHOOSE i \in faulty : \A j \in faulty : i <= j].fault

\* Node.heuristic for a board that has played the given number of turns,
\* from the results of the sub-heuristics: the weights of the return
\* expression are the module constants.
NodeHeuristic(subs, turns) ==
    IF FirstFault(subs) # "none" THEN Raise(FirstFault(subs))
    ELSE Ok(Blend(BaseWeights,
                  <<subs[1].val, subs[2].val, subs[3].val, subs[4].val>>))

\* No sub-heuristic has been called.
NoCall == [fn |-> "none", res |-> Ok(Rat(0, 1)), parts |-> <<>>]

(***************************************************************************)
(* Node                                                                    *)
(***************************************************************************)
\* The element of a one-element set: Only({F(x) : x \in {e}}) is F(e), with e
\* evaluated once.
Only(S) == CHOOSE x \in S : TRUE

NoIter == [created |-> FALSE, moves |-> <<>>, pos |-> 0]

\* Node.__init__.  made and reports are history: the moves of the children
\* this node's iterator has yielded, and the (move, evaluation) pairs its
\* children have reported.
NewNode(move, c, board, beta, depth, alpha, maximizing) ==
    [move |-> move, color |-> c, board |-> board, beta |-> beta, depth |-> depth,
     alpha |-> alpha, next_move |-> NoMove,
     evaluation |-> IF maximizing THEN -Inf ELSE Inf,
     maximizing |-> maximizing, iter |-> NoIter,
     made |-> <<>>, reports |-> <<>>]

\* Node.__iter__: the generator is created on the first request only; the
\* legal moves are listed when it is created.
NodeIterRecreate(n) ==
    [n EXCEPT !.iter = [created |-> TRUE, moves |-> ValidMoves(n.board), pos |-> 0]]
NodeIter(n) ==
    IF n.iter.created
    THEN n
    ELSE [n EXCEPT !.iter = [created |-> TRUE, moves |-> ValidMoves(n.board), pos |-> 0]]

\* The generator's body for one move: the child inherits the node's alpha
\* and beta as they are when the child is yielded.
Child(n, move) ==
    NewNode(move, Opposite(n.color), Play(n.board, move), n.beta, n.depth + 1,
            n.alpha, ~n.maximizing)

\* Node.__next__: next(iter(self)).  stop is StopIteration.
NodeNext(n) ==
    LET m == NodeIter(n) IN
    IF m.iter.pos < Len(m.iter.moves)
    THEN LET move == m.iter.moves[m.iter.pos + 1] IN
         [stop |-> FALSE,
          node |-> [m EXCEPT !.iter.pos = @ + 1, !.made = Append(@, move)],
          child |-> Child(m, move)]
    ELSE [stop |-> TRUE, node |-> m, child |-> m]

\* "for _ in parent: pass" / "tuple(self)": the rest of the generator is
\* run to its end, constructing (and dropping) the remaining children.
DrainNothing(n) == n
RECURSIVE Drain(_)
Drain(n) ==
    Only({IF r.stop THEN r.node ELSE Drain(r.node) : r \in {NodeNext(n)}})

(***************************************************************************)
(* Backtracking                                                            *)
(***************************************************************************)
Adopt(parent, evaluation, move) ==
    [parent EXCEPT !.next_move = move, !.evaluation = evaluation]

\* MiniMaxPlayer.minimax, the update of parent by a closed child.
PlayerBacktrackKeepsChildren(parent, evaluation, move) ==
    IF parent.maximizing
    THEN LET p1 == IF evaluation > parent.evaluation
                   THEN Adopt(parent, evaluation, move) ELSE parent
         IN IF p1.evaluation > p1.alpha /\ p1.evaluation < p1.beta
            THEN [p1 EXCEPT !.alpha = p1.evaluation]
            ELSE p1
    ELSE LET p1 == IF evaluation <= parent.evaluation
                   THEN Adopt(parent, evaluation, move) ELSE parent
             p2 == [p1 EXCEPT !.beta = Min(p1.beta, evaluation)]
         IN IF p2.evaluation <= p2.alpha
            THEN Drain(p2)
            ELSE IF p2.evaluation < p2.beta
                 THEN [p2 EXCEPT !.beta = p2.evaluation]
                 ELSE p2
PlayerBacktrack(parent, evaluation, move) ==
    IF parent.maximizing
    THEN LET p1 == IF evaluation > parent.evaluation
                   THEN Adopt(parent, evaluation, move) ELSE parent
         IN IF p1.evaluation >= p1.beta
            THEN Drain(p1)
            ELSE IF p1.evaluation > p1.alpha
                 THEN [p1 EXCEPT !.alpha = p1.evaluation]
                 ELSE p1
    ELSE LET p1 == IF evaluation <= parent.evaluation
                   THEN Adopt(parent, evaluation, move) ELSE parent
             p2 == [p1 EXCEPT !.beta = Min(p1.beta, evaluation)]
         IN IF p2.evaluation <= p2.alpha
            THEN Drain(p2)
            ELSE IF p2.evaluation < p2.beta
                 THEN [p2 EXCEPT !.beta = p2.evaluation]
                 ELSE p2

NodeMinimaxCutAtAlpha(self, evaluation, move) ==
    IF self.maximizing
    THEN LET p1 == IF evaluation > self.evaluation
                   THEN Adopt(self, evaluation, move) ELSE self
         IN IF p1.evaluation >= p1.alpha
            THEN Drain(p1)
            ELSE [p1 EXCEPT !.alpha = p1.evaluation]
    ELSE LET p1 == IF evaluation < self.evaluation
                   THEN Adopt(self, evaluation, move) ELSE self
         IN IF p1.evaluation <= p1.alpha
            THEN Drain(p1)
            ELSE IF p1.evaluation < p1.beta
                 THEN [p1 EXCEPT !.beta = p1.evaluation]
                 ELSE p1

\* Node.minimax(evaluation, move)
NodeMinimax(self, evaluation, move) ==
    IF self.maximizing
    THEN LET p1 == IF evaluation > self.evaluation
                   THEN Adopt(self, evaluation, move) ELSE self
         IN IF p1.evaluation >= p1.beta
            THEN Drain(p1)
            ELSE IF p1.evaluation > p1.alpha
                 THEN [p1 EXCEPT !.alpha = p1.evaluation]
                 ELSE p1
    ELSE LET p1 == IF evaluation < self.evaluation
                   THEN Adopt(self, evaluation, move) ELSE self
         IN IF p1.evaluation <= p1.alpha
            THEN Drain(p1)
            ELSE IF p1.evaluation < p1.beta
                 THEN [p1 EXCEPT !.beta = p1.evaluation]
                 ELSE p1

\* The report of a closed child to its parent, under either Node.
Backtrack(v, parent, child) ==
    LET p == IF v = "player"
             THEN PlayerBacktrack(parent, child.evaluation, child.move)
             ELSE NodeMinimax(parent, child.evaluation, child.move)
    IN [p EXCEPT !.reports = Append(@, <<child.move, child.evaluation>>)]

\* "if abs(current.evaluation) == math.inf: current.evaluation =
\* current.heuristic(color)"
Evaluate(n, c) ==
    IF Abs(n.evaluation) = Inf THEN [n EXCEPT !.evaluation = Heuristic(n, c)] ELSE n

(***************************************************************************)
(* The driver: one action per kind of loop iteration.                      *)
(***************************************************************************)
Top(s) == s[Len(s)]
Pop(s) == SubSeq(s, 1, Len(s) - 1)
NoNode == NewNode(NoMove, "WHITE", [h |-> 0, kids |-> <<>>], Inf, 0, -Inf, TRUE)
NoneClosed == [some |-> FALSE, node |-> NoNode]
NoPar == [phase |-> "idle", tasks |-> <<>>, results |-> <<>>, finished |-> {},
          move |-> NoMove]

\* "if current.depth >= depth_limit: raise StopIteration"
AtLimit(n, limit) == n.depth >= limit

\* The iteration once next(current) has returned r.
IterationOf(r, s, c, limit, v) ==
    IF ~r.stop /\ ~AtLimit(r.child, limit)
    THEN [kind |-> "descend",
          stack |-> Append(Append(Pop(s), r.node), r.child),
          closed |-> NoneClosed, cut |-> FALSE]
    ELSE IF ~r.stop
    THEN Only({[kind |-> "leaf",
                stack |-> Append(Pop(s), parent),
                closed |-> [some |-> TRUE, node |-> current],
                cut |-> Len(parent.made) > Len(r.node.made)] :
               <<current, parent>> \in
                   {<<cur, Backtrack(v, r.node, cur)>> :
                       cur \in {Evaluate(r.child, c)}}})
    ELSE IF Len(s) = 1
    THEN Only({[kind |-> "return", stack |-> <<current>>,
                closed |-> [some |-> TRUE, node |-> current], cut |-> FALSE] :
               current \in {Evaluate(r.node, c)}})
    ELSE Only({[kind |-> "close",
                stack |-> Append(Pop(Pop(s)), parent),
                closed |-> [some |-> TRUE, node |-> current],
                cut |-> Len(parent.made) > Len(s[Len(s) - 1].made)] :
               <<current, parent>> \in
                   {<<cur, Backtrack(v, s[Len(s) - 1], cur)>> :
                       cur \in {Evaluate(r.node, c)}}})

\* One iteration of the "while True" loop on the parent chain s, for a search
\* of colour c to the depth limit under backtracking update v.
\*   descend: next(current) yields a child above the limit; current = child.
\*   leaf:    next(current) yields a child at the limit; StopIteration is
\*            raised with current = child, which is evaluated and reports to
\*            its parent; current = parent.
\*   close:   next(current) raises StopIteration; current is evaluated if no
\*            child reported, reports to its parent; current = parent.
\*   return:  as close, and current.parent is None: return current.
Iteration(s, c, limit, v) ==
    Only({IterationOf(r, s, c, limit, v) : r \in {NodeNext(Top(s))}})

\* MiniMaxPlayer.minimax from the chain s to its return: the node returned.
RECURSIVE RunToEnd(_, _, _, _)
RunToEnd(s, c, limit, v) ==
    LET it == Iteration(s, c, limit, v) IN
    IF it.kind = "return" THEN it.stack[1] ELSE RunToEnd(it.stack, c, limit, v)

\* The assignments of one iteration.
TakeNeverDone(it) ==
    /\ stack' = it.stack
    /\ closed' = it.closed
    /\ pruned' = (pruned \/ it.cut)
    /\ done' = FALSE
    /\ UNCHANGED <<color, depth_limit, variant, hboard, hout, par>>
Take(it) ==
    /\ stack' = it.stack
    /\ closed' = it.closed
    /\ pruned' = (pruned \/ it.cut)
    /\ done' = (it.kind = "return")
    /\ UNCHANGED <<color, depth_limit, variant, hboard, hout, par>>

Descend ==
    /\ ~done /\ stack # <<>>
    /\ \E it \in {Iteration(stack, color, depth_limit, variant)} :
          it.kind = "descend" /\ Take(it)

LeafAtLimit ==
    /\ ~done /\ stack # <<>>
    /\ \E it \in {Iteration(stack, color, depth_limit, variant)} :
          it.kind = "leaf" /\ Take(it)

Close ==
    /\ ~done /\ stack # <<>>
    /\ \E it \in {Iteration(stack, color, depth_limit, variant)} :
          it.kind = "close" /\ Take(it)

Return ==
    /\ ~done /\ stack # <<>>
    /\ \E it \in {Iteration(stack, color, depth_limit, variant)} :
          it.kind = "return" /\ Take(it)

\* "current = Node((0, 0), color, board)"
Root(board, c) == NewNode(NoMove, c, board, Inf, 0, -Inf, TRUE)

Init ==
    /\ color \in Colors
    /\ depth_limit \in DepthLimits
    /\ variant \in Variants
    /\ \E board \in Boards : stack = <<Root(board, color)>>
    /\ done = FALSE
    /\ closed = NoneClosed
    /\ pruned = FALSE
    /\ hboard = NoBoard
    /\ hout = NoCall
    /\ par = NoPar

Next == Descend \/ LeafAtLimit \/ Close \/ Return

Spec == Init /\ [][Next]_vars

\* The loop is sequential code: an iteration that can run does run.
FairSpec == Spec /\ WF_vars(Next)

(***************************************************************************)
(* Parallel root search.  The dispatcher is not among the repository's     *)
(* files; it is modelled from the design: one child per legal move of the  *)
(* root, each handed by value (Node.get_info) to an isolated worker that    *)
(* runs the search rooted at its child to the fixed depth limit, and the    *)
(* results merged by max() over the children in enumeration order.         *)
(***************************************************************************)
\* Node.get_info
get_info(n) ==
    [move |-> n.move, color |-> n.color, board |-> n.board, beta |-> n.beta,
     depth |-> n.depth, alpha |-> n.alpha, maximize |-> n.maximizing,
     next_move |-> n.next_move, evaluation |-> n.evaluation]

\* Node.__gt__
NodeGt(self, other) == self.evaluation > other.evaluation

\* tuple(root): every child of the root, in enumeration order.
RECURSIVE Children(_)
Children(n) ==
    LET r == NodeNext(n) IN
    IF r.stop THEN <<>> ELSE <<r.child>> \o Children(r.node)

\* The worker: a node rebuilt from the snapshot, with no parent, searched to
\* the depth limit; the snapshot of the node returned.
Worker(info, c, limit, v) ==
    get_info(RunToEnd(<<NewNode(info.move, info.color, info.board, info.beta,
                               info.depth, info.alpha, info.maximize)>>,
                      c, limit, v))

\* max(results): the first result that no other exceeds.
RECURSIVE MaxFrom(_, _, _)
MaxFrom(results, i, best) ==
    IF i > Len(results) THEN best
    ELSE MaxFrom(results, i + 1, IF NodeGt(results[i], best) THEN results[i] ELSE best)

\* The root's children are enumerated and one task per child is handed out.
Dispatch ==
    /\ par.phase = "idle"
    /\ \E children \in {Children(stack[1])} :
          par' = [phase |-> "dispatched",
                  tasks |-> [i \in DOMAIN children |-> get_info(children[i])],
                  results |-> [i \in DOMAIN children |-> get_info(children[i])],
                  finished |-> {}, move |-> NoMove]
    /\ UNCHANGED <<color, depth_limit, variant, stack, done, closed, pruned, hboard, hout>>

\* Worker i completes and its result is stored for task i; the workers
\* complete in any order.
WorkerDone(i) ==
    /\ par.phase = "dispatched"
    /\ i \in DOMAIN par.tasks /\ i \notin par.finished
    /\ \E result \in {Worker(par.tasks[i], color, depth_limit, variant)} :
          par' = [par EXCEPT !.results[i] = result, !.finished = @ \cup {i}]
    /\ UNCHANGED <<color, depth_limit, variant, stack, done, closed, pruned, hboard, hout>>

\* Every worker has completed: the results are compared in the order of the
\* tasks.  max() of no result at all raises.
Merge ==
    /\ par.phase = "dispatched"
    /\ par.finished = DOMAIN par.tasks
    /\ par' = IF par.results = <<>>
              THEN [par EXCEPT !.phase = "failed"]
              ELSE [par EXCEPT !.phase = "merged",
                               !.move = MaxFrom(par.results, 2, par.results[1]).move]
    /\ UNCHANGED <<color, depth_limit, variant, stack, done, closed, pruned, hboard, hout>>

ParInit ==
    /\ color \in Colors
    /\ depth_limit \in DepthLimits
    /\ variant \in Variants
    /\ \E board \in Boards : stack = <<Root(board, color)>>
    /\ done = FALSE
    /\ closed = NoneClosed
    /\ pruned = FALSE
    /\ hboard = NoBoard
    /\ hout = NoCall
    /\ par = NoPar

ParNext == Dispatch \/ (\E i \in 1 .. MaxNodes : WorkerDone(i)) \/ Merge

ParSpec == ParInit /\ [][ParNext]_vars

(***************************************************************************)
(* Calls of the sub-heuristics on every board of the model.                *)
(***************************************************************************)
CallScore ==
    /\ hout.fn = "none"
    /\ \E r \in {score_heuristic(hboard, color)} :
          hout' = [fn |-> "score", res |-> r.res, parts |-> r.parts]
    /\ UNCHANGED <<color, depth_limit, variant, stack, done, closed, pruned, hboard, par>>

CallCorners ==
    /\ hout.fn = "none"
    /\ \E r \in {corners_heuristic(hboard, color)} :
          hout' = [fn |-> "corners", res |-> r.res, parts |-> r.parts]
    /\ UNCHANGED <<color, depth_limit, variant, stack, done, closed, pruned, hboard, par>>

CallMobility ==
    /\ hout.fn = "none"
    /\ \E r \in {mobility_heuristic(hboard, color)} :
          hout' = [fn |-> "mobility", res |-> r.res, parts |-> r.parts]
    /\ UNCHANGED <<color, depth_limit, variant, stack, done, closed, pruned, hboard, par>>

CallStability ==
    /\ hout.fn = "none"
    /\ \E r \in {stability_heuristic(hboard, color)} :
          hout' = [fn |-> "stability", res |-> r.res, parts |-> r.parts]
    /\ UNCHANGED <<color, depth_limit, variant, stack, done, closed, pruned, hboard, par>>

HeurInit ==
    /\ color \in Colors
    /\ hboard \in HBoards
    /\ hout = NoCall
    /\ depth_limit = 0
    /\ variant = "player"
    /\ stack = <<>>
    /\ done = TRUE
    /\ closed = NoneClosed
    /\ pruned = FALSE
    /\ par = NoPar

\* Node.heuristic of node.py on a board that has played t turns; "adapted"
\* holds the local weights at the return statement.
CallHeuristic ==
    /\ hout.fn = "none"
    /\ \E subs \in {SubHeuristics(hboard, color)} :
          \E t \in Turns :
             hout' = [fn |-> "heuristic", res |-> NodeHeuristic(subs, t),
                      parts |-> <<>>, subs |-> subs, turns |-> t,
                      adapted |-> AdaptedWeights(MAX_TURNS - t)]
    /\ UNCHANGED <<color, depth_limit, variant, stack, done, closed, pruned, hboard, par>>

HeurNext == CallScore \/ CallCorners \/ CallMobility \/ CallStability \/ CallHeuristic

HeurSpec == HeurInit /\ [][HeurNext]_vars


(***************************************************************************)
(* Reference: full-width minimax over the same positions, children in the  *)
(* same order, the same leaf evaluator and depth limit, no alpha or beta.  *)
(***************************************************************************)
RefHeuristic(board, c) == IF c = "WHITE" THEN board.h ELSE -board.h

RECURSIVE FullValue(_, _, _, _, _)
FullValue(board, depth, maximizing, limit, c) ==
    IF (depth >= limit /\ depth > 0) \/ board.kids = <<>>
    THEN RefHeuristic(board, c)
    ELSE LET vs == [i \in 1 .. Len(board.kids) |->
                       FullValue(board.kids[i], depth + 1, ~maximizing, limit, c)]
         IN IF maximizing
            THEN CHOOSE v \in {vs[i] : i \in DOMAIN vs} : \A i \in DOMAIN vs : vs[i] <= v
            ELSE CHOOSE v \in {vs[i] : i \in DOMAIN vs} : \A i \in DOMAIN vs : vs[i] >= v

\* The root is a maximizing node: it keeps the first move of greatest value.
FullMove(board, limit, c) ==
    IF board.kids = <<>>
    THEN NoMove
    ELSE LET best == FullValue(board, 0, TRUE, limit, c) IN
         CHOOSE i \in 1 .. Len(board.kids) :
            /\ FullValue(board.kids[i], 1, FALSE, limit, c) = best
            /\ \A j \in 1 .. (i - 1) : FullValue(board.kids[j], 1, FALSE, limit, c) < best

\* C1: for every depth limit d >= 1, the move the pruned iterative search
\* returns (root.next_move) is the move full-width minimax chooses at the same
\* depth limit.
C1_PrunedMoveIsFullWidthMove ==
    (done /\ depth_limit >= 1) =>
        stack[1].next_move = FullMove(stack[1].board, depth_limit, color)

\* A finished search of depth >= 1 in which a cutoff dropped a child and the
\* root had at least two moves to choose from.
C1_Witness ==
    /\ done /\ depth_limit >= 1 /\ pruned
    /\ Len(stack[1].board.kids) >= 2
    /\ stack[1].next_move = 2

\* C2 as stated: alpha <= beta at every node immediately before every
\* next(node) of the traversal loop, the exhausted or drained one included.
C2_AlphaLeBetaBeforeEveryNext ==
    ~done => Top(stack).alpha <= Top(stack).beta

Exhausted(n) == n.iter.created /\ n.iter.pos = Len(n.iter.moves)

\* C2 amended: alpha <= beta immediately before every next(node) that yields a
\* child, and before the final next(node) too unless the node is a minimizing
\* node of MiniMaxPlayer.minimax that a report at or below its alpha has cut
\* off (its beta was lowered to the report before the cutoff test).
C2_AlphaLeBetaBeforeYield ==
    ~done =>
        LET n == Top(stack) IN
        \/ n.alpha <= n.beta
        \/ /\ variant = "player" /\ ~n.maximizing /\ Exhausted(n)
           /\ n.evaluation <= n.alpha

\* Immediately before a next(node) that yields a child, under a window
\* narrowed on both sides.
C2_Witness ==
    /\ ~done
    /\ ~Exhausted(Top(stack))
    /\ Top(stack).iter.created
    /\ -Inf < Top(stack).alpha /\ Top(stack).alpha < Top(stack).beta
    /\ Top(stack).beta < Inf

\* Index of the report a node's next_move comes from, under a tie rule.
LastBest(n) ==
    CHOOSE i \in DOMAIN n.reports :
        /\ n.reports[i][2] = n.evaluation
        /\ \A j \in DOMAIN n.reports : j > i => n.reports[j][2] # n.evaluation
FirstBest(n) ==
    CHOOSE i \in DOMAIN n.reports :
        /\ n.reports[i][2] = n.evaluation
        /\ \A j \in DOMAIN n.reports : j < i => n.reports[j][2] # n.evaluation

\* C3: of the children that reported a node's best evaluation, a minimizing
\* node holds the move of the last one and a maximizing node the move of the
\* first one.
C3_TieBreakAsymmetry ==
    \A k \in DOMAIN stack :
        LET n == stack[k] IN
        n.reports # <<>> =>
            /\ \E i \in DOMAIN n.reports : n.reports[i][2] = n.evaluation
            /\ n.next_move = IF n.maximizing
                             THEN n.reports[FirstBest(n)][1]
                             ELSE n.reports[LastBest(n)][1]

\* C4: with depth limit 0 the search returns the root evaluated by the
\* heuristic, with no child constructed and next_move (0, 0).
C4_DepthZeroEvaluatesRoot ==
    (done /\ depth_limit = 0) =>
        /\ stack[1].next_move = NoMove
        /\ stack[1].made = <<>>
        /\ stack[1].evaluation = RefHeuristic(stack[1].board, color)

IsPrefix(s, t) == Len(s) <= Len(t) /\ \A i \in DOMAIN s : s[i] = t[i]

\* C5: the children a node has yielded are always a prefix of its legal moves
\* in enumeration order (none twice, none extra), the generator once created
\* is the one every later iter() returns, and a node that created its
\* generator has yielded exactly one child per legal move when it is closed.
C5_ChildrenOncePerLegalMove ==
    /\ \A k \in DOMAIN stack :
          LET n == stack[k] IN
          /\ IsPrefix(n.made, ValidMoves(n.board))
          /\ n.iter.created =>
                /\ n.iter.pos = Len(n.made)
                /\ n.iter.moves = ValidMoves(n.board)
                /\ NodeIter(n).iter = n.iter
    /\ (closed.some /\ closed.node.iter.created) =>
          closed.node.made = ValidMoves(closed.node.board)

\* A closed node with several legal moves, drained by a cutoff.
C5_Witness ==
    /\ closed.some /\ closed.node.iter.created
    /\ Len(closed.node.made) >= 2
    /\ Len(closed.node.reports) < Len(closed.node.made)

\* C6: when the current node's side has no legal move, the next step closes
\* it with no child made, its evaluation is the heuristic for the colour of
\* the whole search, that evaluation and its move are what its parent
\* receives, and a root without moves is returned with next_move (0, 0).
C6_NoMovesIsLeaf ==
    [][(~done /\ Top(stack).board.kids = <<>>) =>
          LET n == Top(stack) IN
          /\ closed'.some
          /\ closed'.node.move = n.move /\ closed'.node.depth = n.depth
          /\ closed'.node.made = <<>>
          /\ closed'.node.evaluation = RefHeuristic(n.board, color)
          /\ IF Len(stack) = 1
             THEN done' /\ stack'[1].next_move = NoMove
                        /\ stack'[1].evaluation = RefHeuristic(n.board, color)
             ELSE /\ Len(stack') = Len(stack) - 1
                  /\ Top(stack').reports =
                        Append(stack[Len(stack) - 1].reports,
                               <<n.move, RefHeuristic(n.board, color)>>)
    ]_vars

\* A node below the root, of the opponent's colour, closed without legal
\* moves on a nonzero heuristic value.
C6_Witness ==
    /\ closed.some /\ closed.node.iter.created
    /\ closed.node.board.kids = <<>>
    /\ closed.node.depth > 0
    /\ closed.node.color # color
    /\ closed.node.evaluation # 0

\* The move a single sequential search of the whole tree returns.
SequentialMove == RunToEnd(<<stack[1]>>, color, depth_limit, variant).next_move

\* C7: the move the parallel root search selects is the move a sequential
\* search of the whole tree to the same depth limit returns, whatever the
\* order in which the workers completed.
C7_ParallelMoveIsSequentialMove ==
    par.phase = "merged" => par.move = SequentialMove

\* C8: no call of a sub-heuristic raises, and every ratio whose two counts
\* are both zero is 0.
C8_ZeroDenominatorIsZero ==
    hout.fn # "none" =>
        /\ hout.res.fault = "none"
        /\ \A i \in DOMAIN hout.parts :
              hout.parts[i].a + hout.parts[i].b = 0 =>
                  hout.parts[i].r = Ok(Rat(0, 1))

\* One side has no legal move and the other has at least one; the sign is
\* that of the side the call is made for.
OneSideStuck ==
    /\ hout.fn = "mobility"
    /\ \/ hout.parts[1].a = 0 /\ hout.parts[1].b >= 1
       \/ hout.parts[1].b = 0 /\ hout.parts[1].a >= 1
StuckSign == IF hout.parts[1].a = 0 THEN -1 ELSE 1

\* C9 as stated: mobility_heuristic returns exactly +100 for the side with
\* moves and exactly -100 for the side without.
C9_MobilityIsPlusMinus100 ==
    OneSideStuck =>
        /\ hout.res.fault = "none"
        /\ RatEq(hout.res.val, Rat(StuckSign * 100, 1))

\* C9 amended: mobility_heuristic does not raise, its actual-mobility ratio
\* is exactly +100 or -100, and the value it returns is that ratio blended
\* with the frontier ratio, (50 * (+-100) + 50 * frontier) / 200, which lies
\* in [-50, 50].
C9_MobilityRatioIsPlusMinus100 ==
    OneSideStuck =>
        /\ hout.res.fault = "none"
        /\ hout.parts[1].r.fault = "none"
        /\ RatEq(hout.parts[1].r.val, Rat(StuckSign * 100, 1))
        /\ RatEq(RatScale(4, hout.res.val),
                 RatAdd(Rat(StuckSign * 100, 1), hout.parts[2].r.val))
        /\ RatLe(Rat(-50, 1), hout.res.val) /\ RatLe(hout.res.val, Rat(50, 1))

\* mobility_heuristic called for the side without moves while the other
\* side has two.
C9_Witness ==
    /\ hout.fn = "mobility"
    /\ hout.parts[1].a = 0 /\ hout.parts[1].b = 2

\* The sub-heuristic of a call, for either side.
HeuristicOf(fn, board, c) ==
    IF fn = "score" THEN score_heuristic(board, c)
    ELSE IF fn = "corners" THEN corners_heuristic(board, c)
    ELSE IF fn = "mobility" THEN mobility_heuristic(board, c)
    ELSE stability_heuristic(board, c)

\* C10: every call of a sub-heuristic returns a value in [-100, 100], and when
\* no ratio of the call has a zero denominator the value is the negation of
\* the value for the opposite side.
C10_RangeAndAntisymmetry ==
    hout.fn \in {"score", "corners", "mobility", "stability"} =>
        /\ hout.res.fault = "none"
        /\ RatLe(Rat(-100, 1), hout.res.val) /\ RatLe(hout.res.val, Rat(100, 1))
        /\ (\A i \in DOMAIN hout.parts : hout.parts[i].a + hout.parts[i].b # 0) =>
              RatEq(hout.res.val,
                    RatNeg(HeuristicOf(hout.fn, hboard, Opposite(color)).res.val))

\* The weights of the phase the board is in: 35, 50, 5, 25 when MAX_TURNS -
\* turns <= 20; 25, 40, 5, 25 when it is in (20, 40]; 25, 30, 5, 15 otherwise.
PhaseWeights(remaining) ==
    IF remaining <= 20 THEN <<35, 50, 5, 25>>
    ELSE IF remaining <= 40 THEN <<25, 40, 5, 25>>
    ELSE <<25, 30, 5, 15>>

\* C11: Node.heuristic returns the blend of the four sub-heuristics computed
\* with the weights of the phase, divided by the sum of those weights.
C11_BlendUsesPhaseWeights ==
    (hout.fn = "heuristic" /\ hout.res.fault = "none") =>
        RatEq(hout.res.val,
              Blend(PhaseWeights(MAX_TURNS - hout.turns),
                    <<hout.subs[1].val, hout.subs[2].val,
                      hout.subs[3].val, hout.subs[4].val>>))

\* A backtrack update has left the node with a best evaluation at or beyond
\* its bound: >= beta at a maximizing node, <= alpha at a minimizing one.
CutOff(n) ==
    /\ n.reports # <<>>
    /\ IF n.maximizing THEN n.evaluation >= n.beta ELSE n.evaluation <= n.alpha

\* The legal moves of the node whose children have not reported.
Unconsumed(n) == Len(ValidMoves(n.board)) - Len(n.reports)

\* C12: a node that a backtrack update has cut off is the current node, and
\* the next step closes that very node: no child of it is yielded to the loop,
\* evaluated or heard, its best move and evaluation are as the update left
\* them, and (unless it is the root) its parent receives that evaluation as
\* the report of the node's move.
C12_CutoffClosesNode ==
    [][/\ \A i \in 1 .. (Len(stack') - 1) : ~CutOff(stack'[i])
       /\ (~done /\ CutOff(Top(stack))) =>
             LET n == Top(stack) IN
             /\ closed'.some
             /\ closed'.node.move = n.move /\ closed'.node.depth = n.depth
             /\ closed'.node.board = n.board
             /\ closed'.node.made = n.made
             /\ closed'.node.reports = n.reports
             /\ closed'.node.evaluation = n.evaluation
             /\ closed'.node.next_move = n.next_move
             /\ Len(stack) > 1 =>
                   /\ Len(stack') = Len(stack) - 1
                   /\ Top(stack').reports =
                         Append(stack[Len(stack) - 1].reports,
                                <<n.move, n.evaluation>>)
             /\ Len(stack) = 1 => done'
      ]_vars

\* A maximizing node has been closed after a cutoff that left at least one
\* of its legal moves without a report.
C12_Witness ==
    /\ closed.some
    /\ CutOff(closed.node)
    /\ closed.node.maximizing
    /\ Unconsumed(closed.node) >= 1

\* The children of a node report in enumeration order, each at most once.
ReportsOnce(n) ==
    /\ Len(n.reports) <= Len(ValidMoves(n.board))
    /\ \A k \in DOMAIN n.reports : n.reports[k][1] = ValidMoves(n.board)[k]

\* The chain holds one node per depth, so a closed node below the root has
\* left it; every node's children have reported at most once each.
ClosedOnce ==
    /\ \A k \in DOMAIN stack : stack[k].depth = k - 1 /\ ReportsOnce(stack[k])
    /\ closed.some =>
          /\ ReportsOnce(closed.node)
          /\ ~done => Len(stack) = closed.node.depth

\* The largest evaluation reported to the node.
BestReport(n) ==
    CHOOSE v \in {n.reports[k][2] : k \in DOMAIN n.reports} :
        \A k \in DOMAIN n.reports : n.reports[k][2] <= v

\* The node returned is the root, closed in the last step, holding the best
\* evaluation its children reported and the first move that reported it, or
\* its own evaluation and the move (0, 0) when it has no legal move.
ReturnedRoot ==
    /\ Len(stack) = 1
    /\ closed = [some |-> TRUE, node |-> stack[1]]
    /\ LET root == stack[1] IN
       /\ root.depth = 0 /\ root.move = NoMove /\ root.color = color
       /\ Len(root.reports) = Len(ValidMoves(root.board))
       /\ IF root.reports = <<>>
          THEN root.evaluation = Heuristic(root, color) /\ root.next_move = NoMove
          ELSE /\ root.evaluation = BestReport(root)
               /\ root.next_move = root.reports[FirstBest(root)][1]

\* C13: the loop ends; a step ends it exactly when the node it closes is the
\* root; no node is closed twice; the node returned is the root with the
\* search's best move and evaluation.
C13_TerminatesAtRootOnce ==
    /\ <>done
    /\ [](done => ReturnedRoot)
    /\ [][/\ ~done
          /\ done' <=> (closed'.some /\ closed'.node.depth = 0)
          /\ ClosedOnce']_vars

\* A search has returned the root after three of its children reported and a
\* node at depth two was closed on the way.
C13_Witness ==
    /\ done
    /\ closed.some /\ closed.node.depth = 0
    /\ Len(stack[1].reports) = 3
    /\ \E k \in 1 .. 3 : stack[1].board.kids[k].kids # <<>>

====
